---------------------------- MODULE Spec2Model ----------------------------
(***************************************************************************)
(* City_Plotting: the road style resolver and the compositing pipeline of  *)
(* Plot.py, and the presentation adapter and the country dialog of         *)
(* gui_plot.py.                                                            *)
(*                                                                         *)
(* Python strings are TLA+ strings (Len, SubSeq and \o act on them).       *)
(* Python floats are IEEE-754 binary64 values, kept as a 53-bit mantissa   *)
(* (a sequence of bits, most significant first) and a binary exponent, and *)
(* every float operation rounds to nearest, ties to even.                  *)
(***************************************************************************)
EXTENDS Integers, Sequences, FiniteSets, TLC

VARIABLES
    highway_type,   \* get_road_style: the classification value passed in
    road_style,     \* get_road_style: the value returned, <<>> before the call
    image,          \* calculate_image_size: the image's <<width, height>>
    max_size,       \* calculate_image_size: the max_size argument
    image_size,     \* calculate_image_size: the tuple returned, <<>> before
    pc,             \* where the running event handler stands
    city_name,      \* start_plotting: the text of the city dialog
    countries,      \* get_country_name: what country_check returned
    country,        \* get_country_name: <<>> for None, <<s>> for the string s
    dialog_text,    \* the text of the dialog the interface shows, "" if none
    place_name,     \* the argument of display_plots and of Plot.main
    table,          \* the names of RAILWAY_FEATURES, in insertion order
    graph,          \* main: the road network, <<>> before it is loaded
    railway_data,   \* main: the dict of feature collections, as its items
    widths,         \* main: the width of every edge styled so far
    colors,         \* main: the color of every edge styled so far
    ax,             \* main: the artists of the figure, in draw-call order
    map_without_signals,    \* main: the first export
    map_with_signals,       \* main: the second export
    plot_image_1,   \* gui_plot: the global
    plot_image_2,   \* gui_plot: the global
    plot_label_1,   \* the image plot_label_1 shows
    plot_label_2,   \* the image plot_label_2 shows
    error,          \* the exception that left the handler, "" if none
    responses,      \* history: the provider's answer to each get_features
    trace,          \* history: the calls of the running handler, in order
    images_before   \* history: the globals and labels when the handler began

styleVars == <<highway_type, road_style>>
sizeVars == <<image, max_size, image_size>>
dialogVars == <<city_name, countries, country, dialog_text, place_name>>
mainVars == <<graph, railway_data, widths, colors, ax, map_without_signals,
              map_with_signals>>
guiVars == <<plot_image_1, plot_image_2, plot_label_1, plot_label_2>>
histVars == <<responses, trace, images_before>>
vars == <<styleVars, sizeVars, pc, dialogVars, table, mainVars, guiVars,
          error, histVars>>

(***************************************************************************)
(* Bounds of the model.                                                    *)
(***************************************************************************)
\* The most fragments joined into one classification string, and the most
\* entries of a list-valued classification.
MaxParts == 2
\* The largest image width and height, in pixels.
MaxDim == 15
\* The largest integer max_size.
MaxSize == 11
\* The most edges of a road network.
MaxEdges == 2

(***************************************************************************)
(* Python strings.                                                         *)
(***************************************************************************)
UpperCase == "ABCDEFGHIJKLMNOPQRSTUVWXYZ"
LowerCase == "abcdefghijklmnopqrstuvwxyz"

\* The index of the one-character string c in alphabet, 0 when absent.
IndexIn(alphabet, c) ==
    IF \E i \in 1..Len(alphabet) : SubSeq(alphabet, i, i) = c
    THEN CHOOSE i \in 1..Len(alphabet) : SubSeq(alphabet, i, i) = c
    ELSE 0

LowerChar(c) ==
    LET i == IndexIn(UpperCase, c)
    IN  IF i = 0 THEN c ELSE SubSeq(LowerCase, i, i)

UpperChar(c) ==
    LET i == IndexIn(LowerCase, c)
    IN  IF i = 0 THEN c ELSE SubSeq(UpperCase, i, i)

RECURSIVE lower(_)
\* str.lower()
lower(s) ==
    IF s = "" THEN ""
    ELSE LowerChar(SubSeq(s, 1, 1)) \o lower(SubSeq(s, 2, Len(s)))

\* str.capitalize(): the first character upper-cased, the rest lower-cased.
capitalize(s) ==
    IF s = "" THEN ""
    ELSE UpperChar(SubSeq(s, 1, 1)) \o lower(SubSeq(s, 2, Len(s)))

\* Python's `sub in s` on strings.
Contains(s, sub) ==
    \E i \in 1..(Len(s) - Len(sub) + 1) : SubSeq(s, i, i + Len(sub) - 1) = sub

RECURSIVE JoinRepr(_)
\* The body of a list's str(): the repr of each entry, joined by ", ".
JoinRepr(items) ==
    IF Len(items) = 0 THEN ""
    ELSE IF Len(items) = 1 THEN "'" \o items[1] \o "'"
    ELSE "'" \o items[1] \o "', " \o JoinRepr(Tail(items))

\* str(): a string is itself, a list of strings is "['a', 'b']".
str(v) ==
    IF v.kind = "str" THEN v.s ELSE "[" \o JoinRepr(v.items) \o "]"

(***************************************************************************)
(* Plot.py: the style resolver.                                            *)
(***************************************************************************)
\* The dict in insertion order, which is the order its items() iterate in.
ROAD_STYLES == <<
    [road_type |-> "motorway",  width |-> "2.5", color |-> "#000000"],
    [road_type |-> "trunk",     width |-> "2.5", color |-> "#000000"],
    [road_type |-> "primary",   width |-> "1.5", color |-> "#222222"],
    [road_type |-> "secondary", width |-> "1.5", color |-> "#222222"],
    [road_type |-> "tertiary",  width |-> "0.8", color |-> "#444444"],
    [road_type |-> "default",   width |-> "0.3", color |-> "#888888"] >>

ROAD_STYLES_default == ROAD_STYLES[Len(ROAD_STYLES)]

\* get_road_style as it would be without the lower-casing.
get_road_style_case_sensitive(v) ==
    LET highway_str == str(v)
        hits == {i \in 1..Len(ROAD_STYLES) :
                    Contains(highway_str, ROAD_STYLES[i].road_type)}
    IN  IF hits # {}
        THEN LET first == CHOOSE i \in hits : \A j \in hits : i <= j
             IN  <<ROAD_STYLES[first].width, ROAD_STYLES[first].color>>
        ELSE <<ROAD_STYLES_default.width, ROAD_STYLES_default.color>>

\* get_road_style as it would be if the fallback read the entry before
\* 'default'.
get_road_style_wrong_fallback(v) ==
    LET highway_str == lower(str(v))
        hits == {i \in 1..Len(ROAD_STYLES) :
                    Contains(highway_str, ROAD_STYLES[i].road_type)}
        fallback == ROAD_STYLES[Len(ROAD_STYLES) - 1]
    IN  IF hits # {}
        THEN LET first == CHOOSE i \in hits : \A j \in hits : i <= j
             IN  <<ROAD_STYLES[first].width, ROAD_STYLES[first].color>>
        ELSE <<fallback.width, fallback.color>>

get_road_style(v) ==
    LET highway_str == lower(str(v))
        hits == {i \in 1..Len(ROAD_STYLES) :
                    Contains(highway_str, ROAD_STYLES[i].road_type)}
    IN  IF hits # {}
        THEN LET first == CHOOSE i \in hits : \A j \in hits : i <= j
             IN  <<ROAD_STYLES[first].width, ROAD_STYLES[first].color>>
        ELSE <<ROAD_STYLES_default.width, ROAD_STYLES_default.color>>

(***************************************************************************)
(* Natural numbers of any size: sequences of bits, most significant bit    *)
(* first, without leading zeros (zero is the empty sequence). The sums,    *)
(* differences, products and quotients run over the bit positions by       *)
(* halving the range, each half finished before the next one starts.       *)
(***************************************************************************)
Front(b) == SubSeq(b, 1, Len(b) - 1)
Last(b) == b[Len(b)]
Zeros(n) == [i \in 1..n |-> 0]
MaxOf(x, y) == IF x >= y THEN x ELSE y

\* The bit of weight 2^k.
Bit(a, k) == IF k < Len(a) THEN a[Len(a) - k] ELSE 0

RECURSIVE BitsOfInt(_)
BitsOfInt(n) == IF n = 0 THEN <<>> ELSE Append(BitsOfInt(n \div 2), n % 2)

RECURSIVE IntOfBits(_)
IntOfBits(b) == IF b = <<>> THEN 0 ELSE 2 * IntOfBits(Front(b)) + Last(b)

Strip(b) ==
    IF \A i \in 1..Len(b) : b[i] = 0 THEN <<>>
    ELSE LET first == CHOOSE i \in 1..Len(b) :
                        b[i] = 1 /\ \A j \in 1..(i - 1) : b[j] = 0
         IN  SubSeq(b, first, Len(b))

\* a >= b, both stripped.
Geq(a, b) ==
    IF Len(a) # Len(b) THEN Len(a) > Len(b)
    ELSE \/ a = b
         \/ \E i \in 1..Len(a) :
                /\ a[i] > b[i]
                /\ \A j \in 1..(i - 1) : a[j] = b[j]

RECURSIVE AddFold(_, _, _, _, _)
\* Positions lo..hi of a + b, after st: the bits below lo and the carry.
AddFold(a, b, lo, hi, st) ==
    IF lo = hi
    THEN LET t == Bit(a, lo) + Bit(b, lo) + st.c
         IN  [out |-> <<t % 2>> \o st.out, c |-> t \div 2]
    ELSE LET mid == (lo + hi) \div 2
             low == AddFold(a, b, lo, mid, st)
         IN  IF low.c >= 0 THEN AddFold(a, b, mid + 1, hi, low) ELSE low

\* a + b + carry
AddBits(a, b, carry) ==
    LET n == MaxOf(Len(a), Len(b))
        r == AddFold(a, b, 0, n, [out |-> <<>>, c |-> carry])
    IN  Strip(r.out)

RECURSIVE SubFold(_, _, _, _, _)
\* Positions lo..hi of a - b, after st: the bits below lo and the borrow.
SubFold(a, b, lo, hi, st) ==
    IF lo = hi
    THEN LET d == Bit(a, lo) - Bit(b, lo) - st.c
         IN  [out |-> <<d % 2>> \o st.out, c |-> IF d < 0 THEN 1 ELSE 0]
    ELSE LET mid == (lo + hi) \div 2
             low == SubFold(a, b, lo, mid, st)
         IN  IF low.c >= 0 THEN SubFold(a, b, mid + 1, hi, low) ELSE low

\* a - b, for a >= b
SubBits(a, b) ==
    IF a = <<>> THEN <<>>
    ELSE Strip(SubFold(a, b, 0, Len(a) - 1, [out |-> <<>>, c |-> 0]).out)

RECURSIVE MulFold(_, _, _, _, _)
\* a times the bits lo..hi of b (most significant first), after acc.
MulFold(a, b, lo, hi, acc) ==
    IF lo = hi
    THEN LET twice == IF acc = <<>> THEN acc ELSE Append(acc, 0)
         IN  IF b[lo] = 1 THEN AddBits(twice, a, 0) ELSE twice
    ELSE LET mid == (lo + hi) \div 2
             high == MulFold(a, b, lo, mid, acc)
         IN  IF Len(high) >= 0 THEN MulFold(a, b, mid + 1, hi, high) ELSE high

MulBits(a, b) ==
    IF a = <<>> \/ b = <<>> THEN <<>> ELSE MulFold(a, b, 1, Len(b), <<>>)

RECURSIVE DivFold(_, _, _, _, _)
\* Long division of a by b over the bits lo..hi of a (most significant
\* first), after st: the quotient bits so far and the remainder.
DivFold(a, b, lo, hi, st) ==
    IF lo = hi
    THEN LET r1 == Strip(Append(st.r, a[lo]))
         IN  IF Geq(r1, b)
             THEN [q |-> Append(st.q, 1), r |-> SubBits(r1, b)]
             ELSE [q |-> Append(st.q, 0), r |-> r1]
    ELSE LET mid == (lo + hi) \div 2
             high == DivFold(a, b, lo, mid, st)
         IN  IF Len(high.q) >= 0 THEN DivFold(a, b, mid + 1, hi, high) ELSE high

\* The quotient (stripped) and the remainder of a by b # 0.
DivMod(a, b) ==
    IF a = <<>> THEN [q |-> <<>>, r |-> <<>>]
    ELSE LET d == DivFold(a, b, 1, Len(a), [q |-> <<>>, r |-> <<>>])
         IN  [q |-> Strip(d.q), r |-> d.r]

(***************************************************************************)
(* IEEE-754 binary64, positive normal values: [m, e] is m * 2^e, where m   *)
(* has Precision bits and its first bit is 1.                              *)
(***************************************************************************)
Precision == 53

\* The float nearest to (bits + f) * 2^e, where 0 <= f < 1 and f # 0 iff
\* sticky; ties go to the even mantissa. With sticky set, bits holds more
\* than Precision bits.
RoundNearestEven(bits, sticky, e) ==
    LET L == Len(bits)
    IN  IF L <= Precision
        THEN [m |-> bits \o Zeros(Precision - L), e |-> e - (Precision - L)]
        ELSE LET keep == SubSeq(bits, 1, Precision)
                 guard == bits[Precision + 1]
                 rest == \/ sticky
                         \/ \E i \in (Precision + 2)..L : bits[i] = 1
                 up == guard = 1 /\ (rest \/ keep[Precision] = 1)
                 m1 == IF up THEN AddBits(keep, <<>>, 1) ELSE keep
             IN  IF Len(m1) > Precision
                 THEN [m |-> Front(m1), e |-> e + (L - Precision) + 1]
                 ELSE [m |-> m1, e |-> e + (L - Precision)]

\* float(n), n >= 1
FloatOfInt(n) == RoundNearestEven(BitsOfInt(n), FALSE, 0)

\* x * y
FloatMul(x, y) == RoundNearestEven(MulBits(x.m, y.m), FALSE, x.e + y.e)

\* x / y: the quotient of the mantissas to Precision + 3 bits or more, the
\* remainder kept as the sticky bit.
FloatDiv(x, y) ==
    LET shift == Precision + 3
        d == DivMod(x.m \o Zeros(shift), y.m)
    IN  RoundNearestEven(d.q, d.r # <<>>, x.e - y.e - shift)

\* x > y
FloatGt(x, y) ==
    IF x.e # y.e THEN x.e > y.e ELSE x.m # y.m /\ Geq(x.m, y.m)

\* int(x): truncation toward zero.
IntOfFloat(x) ==
    IF x.e >= 0 THEN IntOfBits(x.m \o Zeros(x.e))
    ELSE IF 0 - x.e >= Precision THEN 0
    ELSE IntOfBits(SubSeq(x.m, 1, Precision + x.e))

(***************************************************************************)
(* Python numbers: an int is [t |-> "int", v |-> n], a float is            *)
(* [t |-> "float", v |-> [m, e]].                                          *)
(***************************************************************************)
PyInt(n) == [t |-> "int", v |-> n]
PyFloat(x) == [t |-> "float", v |-> x]

\* The float operand of a mixed int/float operation.
AsFloat(x) == IF x.t = "int" THEN FloatOfInt(x.v) ELSE x.v

(***************************************************************************)
(* gui_plot.py: the presentation adapter.                                  *)
(***************************************************************************)
\* img is <<width, height>>, both positive ints; size is an int or a float.
calculate_image_size(img, size) ==
    LET image_ratio == FloatDiv(FloatOfInt(img[1]), FloatOfInt(img[2]))
    IN  IF FloatGt(image_ratio, FloatOfInt(1))
        THEN <<PyInt(IntOfFloat(FloatMul(AsFloat(size), image_ratio))), size>>
        ELSE <<size, PyInt(IntOfFloat(FloatDiv(AsFloat(size), image_ratio)))>>

(***************************************************************************)
(* Plot.py: the feature fetcher and the compositor.                        *)
(***************************************************************************)
\* The dict in insertion order, which is the order its items() iterate in.
RAILWAY_FEATURES == <<
    [name |-> "tram", tags |-> [railway |-> "tram"],
     color |-> "red", width |-> 1, zorder |-> 3],
    [name |-> "rail", tags |-> [railway |-> "rail"],
     color |-> "blue", width |-> 1, zorder |-> 5],
    [name |-> "narrow_gauge", tags |-> [railway |-> "narrow_gauge"],
     color |-> "cyan", width |-> 1, zorder |-> 4],
    [name |-> "signal", tags |-> [railway |-> "signal"],
     color |-> "green", size |-> 4, zorder |-> 6] >>

\* d[key] on a dict kept as its items; the caller checks HasKey first.
HasKey(d, key) == \E i \in 1..Len(d) : d[i].name = key
Lookup(d, key) == d[CHOOSE i \in 1..Len(d) : d[i].name = key]

\* What ox.features_from_place may do for one tag filter: return the
\* matching features (never none), report that nothing matches, or fail.
ProviderAnswers(tags) ==
    { [raises |-> "", features |-> <<[railway |-> tags.railway, id |-> 1]>>],
      [raises |-> "InsufficientResponseError", features |-> <<>>],
      [raises |-> "ConnectionError", features |-> <<>>] }

\* get_features as it would be with a bare except.
get_features_catch_all(answer) ==
    IF answer.raises # ""
    THEN [raises |-> "", features |-> <<>>]
    ELSE answer

\* get_features, given what the provider did: the features returned, or the
\* exception that leaves the function.
get_features(answer) ==
    IF answer.raises = "InsufficientResponseError"
    THEN [raises |-> "", features |-> <<>>]
    ELSE answer

\* features.empty of a GeoDataFrame
Empty(features) == Len(features) = 0

overlay_feature(features, axes, feature_config) ==
    IF Empty(features) THEN axes
    ELSE IF "size" \in DOMAIN feature_config
    THEN Append(axes, [features |-> features,
                       color |-> feature_config.color,
                       markersize |-> feature_config.size,
                       alpha |-> "1.0",
                       zorder |-> feature_config.zorder])
    ELSE Append(axes, [features |-> features,
                       color |-> feature_config.color,
                       linewidth |-> feature_config.width,
                       alpha |-> "1.0",
                       zorder |-> feature_config.zorder])

RECURSIVE overlay_railways_with_signal(_, _, _)
\* main's loop as it would be without the test that leaves the signals out.
overlay_railways_with_signal(items, axes, features_table) ==
    IF items = <<>> THEN axes
    ELSE LET feature_name == Head(items).name
             features == Head(items).features
             drawn == overlay_feature(features, axes,
                                      Lookup(features_table, feature_name))
         IN  overlay_railways_with_signal(Tail(items), drawn, features_table)

RECURSIVE overlay_railways_by_zorder(_, _, _)
\* main's loop as it would be over the items sorted by zorder: the item of
\* the lowest zorder is drawn first.
overlay_railways_by_zorder(items, axes, features_table) ==
    IF items = <<>> THEN axes
    ELSE LET z(i) == Lookup(features_table, items[i].name).zorder
             lowest == CHOOSE i \in 1..Len(items) :
                            \A j \in 1..Len(items) : z(i) <= z(j)
             feature_name == items[lowest].name
             features == items[lowest].features
             drawn == IF feature_name # "signal"
                      THEN overlay_feature(features, axes,
                                           Lookup(features_table, feature_name))
                      ELSE axes
             others == SubSeq(items, 1, lowest - 1)
                            \o SubSeq(items, lowest + 1, Len(items))
         IN  overlay_railways_by_zorder(others, drawn, features_table)

RECURSIVE overlay_railways(_, _, _)
\* main's loop over railway_data.items(), which leaves the signals out.
overlay_railways(items, axes, features_table) ==
    IF items = <<>> THEN axes
    ELSE LET feature_name == Head(items).name
             features == Head(items).features
             drawn == IF feature_name # "signal"
                      THEN overlay_feature(features, axes,
                                           Lookup(features_table, feature_name))
                      ELSE axes
         IN  overlay_railways(Tail(items), drawn, features_table)

\* main's styling loop over the edges of the graph.
edge_styles(edges) == [i \in 1..Len(edges) |-> get_road_style(edges[i])]

\* ox.plot_graph: one artist for the edges, no nodes, on a white background.
plot_graph(edge_colors, edge_linewidths) ==
    << [features |-> <<[railway |-> "", id |-> 0]>>,
        edge_color |-> edge_colors,
        edge_linewidth |-> edge_linewidths,
        node_size |-> 0,
        bgcolor |-> "white",
        zorder |-> 1] >>

RECURSIVE Render(_)
\* What fig.savefig paints: the artists by ascending zorder, artists of one
\* zorder in the order they were added.
Render(axes) ==
    IF axes = <<>> THEN <<>>
    ELSE LET below == Render(Front(axes))
             a == Last(axes)
             n == Cardinality({i \in 1..Len(below) : below[i].zorder <= a.zorder})
         IN  SubSeq(below, 1, n) \o <<a>> \o SubSeq(below, n + 1, Len(below))

NoImage == [kind |-> "None"]

\* export_image: the PNG of the figure, opened as a PIL image.
export_image(axes, extent) ==
    [kind |-> "PIL", content |-> Render(axes), size |-> extent]

(***************************************************************************)
(* The inputs of the model.                                                *)
(***************************************************************************)
Str(s) == [kind |-> "str", s |-> s]
List(items) == [kind |-> "list", items |-> items]

\* The highway values of the edges of a road network.
Edges == << Str("motorway"), Str("residential"), Str("service"),
            List(<<"primary", "tertiary">>) >>

\* The sizes in pixels of an exported figure.
ImageExtents == {<<3, 2>>, <<2, 3>>}

\* The road networks ox.graph_from_place may return.
Graphs ==
    { [edges |-> SubSeq(Edges, 1, n), extent |-> x] :
        n \in 1..MaxEdges, x \in ImageExtents }

\* The exceptions ox.graph_from_place may raise.
GraphErrors == {"ConnectionError", "InsufficientResponseError"}

\* The exceptions fig.savefig and Image.open may raise.
ExportErrors == {"MemoryError"}

\* app.winfo_height()
WindowHeights == {1000}

\* What the user may type into the city dialog.
CityNames == {"Berlin", "London", "Atlantis"}

\* city_name_check.country_check: the countries that have a city of the name.
country_check(name) ==
    CASE name = "Berlin" -> <<"Germany">>
      [] name = "London" -> <<"Canada", "United Kingdom">>
      [] OTHER -> <<>>

\* What CTkInputDialog.get_input may return from the country dialog: <<>>
\* is None (the dialog was cancelled), <<s>> is the text s.
CountryInputs ==
    { <<>>, <<"Canada">>, <<"canada">>, <<"CANADA">>, <<"United Kingdom">>,
      <<"united kingdom">>, <<"Germany">>, <<"">> }

\* Python's `x in list`
InList(x, list) == \E i \in 1..Len(list) : list[i] = x

IMAGE_HEIGHT_RATIO == FloatDiv(FloatOfInt(65), FloatOfInt(100))

\* display_plots' size of an image of each extent, for each window height.
display_size ==
    [h \in WindowHeights, x \in ImageExtents |->
        calculate_image_size(
            x, PyFloat(FloatMul(FloatOfInt(h), IMAGE_HEIGHT_RATIO)))]

CTkImage(img, size) == [kind |-> "CTkImage", image |-> img, size |-> size]

DIALOG_TEXT_COUNTRY(names, city) ==
    "Enter country name: \nMultiple countries " \o str(List(names))
        \o " found for '" \o city \o "'. Please specify:"

INVALID_TEXT_COUNTRY(names, text) ==
    "Invalid country name: '" \o text \o "'. Please try again. \nOptions: "
        \o str(List(names))

(***************************************************************************)
(* The event handlers of gui_plot.py and the steps of Plot.main. One       *)
(* handler runs at a time, from the main loop ("idle") until it returns or *)
(* an exception leaves it.                                                 *)
(***************************************************************************)
NoGraph == [edges |-> <<>>, extent |-> <<0, 0>>]

\* The statements as they would be with the signals drawn before the first
\* export.
main_body_signal_first ==
    << "graph_from_place", "get_features", "road_styling", "plot_graph",
       "overlay_railways", "overlay_signal", "export_A", "export_B",
       "display_images" >>

\* The statements of Plot.main and of display_plots after it, in order.
main_body ==
    << "graph_from_place", "get_features", "road_styling", "plot_graph",
       "overlay_railways", "export_A", "overlay_signal", "export_B",
       "display_images" >>

\* The statement after statement p.
next_statement(p) ==
    main_body[(CHOOSE i \in 1..Len(main_body) : main_body[i] = p) + 1]

\* An exception leaves the running handler: nothing in gui_plot.py or in
\* Plot.main catches it, so it reaches the main loop.
Raise(exc) ==
    /\ pc' = "raised"
    /\ error' = exc

\* The condition of get_country_name's while loop and of its if.
country_accepted(text, names) == InList(capitalize(text), names)

\* start_plotting, up to the first dialog of get_country_name or the call
\* of display_plots.
StartPlotting ==
    /\ pc = "idle"
    /\ \E name \in CityNames :
        LET names == country_check(name)
        IN  /\ city_name' = name
            /\ countries' = names
            /\ country' = <<"">>
            /\ IF Len(names) > 1 /\ ~country_accepted("", names)
               THEN /\ pc' = "country_dialog"
                    /\ dialog_text' = DIALOG_TEXT_COUNTRY(names, name)
                    /\ UNCHANGED <<place_name, trace>>
               ELSE IF Len(names) = 1
               THEN /\ pc' = main_body[1]
                    /\ place_name' = name \o ", " \o names[1]
                    /\ trace' = <<"display_plots">>
                    /\ UNCHANGED dialog_text
               ELSE /\ pc' = "returned"
                    /\ UNCHANGED <<place_name, trace, dialog_text>>
    /\ images_before' = <<plot_image_1, plot_image_2, plot_label_1, plot_label_2>>
    /\ UNCHANGED <<styleVars, sizeVars, table, mainVars, guiVars, error,
                   responses>>

\* One round of get_country_name's loop: the dialog returns the user's
\* input, which is accepted, rejected with a new dialog, or (None) breaks
\* the call of capitalize.
CountryInput ==
    /\ pc = "country_dialog"
    /\ \E input \in CountryInputs :
        /\ country' = input
        /\ IF input = <<>>
           THEN /\ Raise("AttributeError")
                /\ dialog_text' = ""
                /\ UNCHANGED <<place_name, trace>>
           ELSE IF country_accepted(input[1], countries)
           THEN /\ pc' = main_body[1]
                /\ place_name' = city_name \o ", " \o capitalize(input[1])
                /\ trace' = Append(trace, "display_plots")
                /\ dialog_text' = ""
                /\ UNCHANGED error
           ELSE /\ pc' = "country_dialog"
                /\ dialog_text' = INVALID_TEXT_COUNTRY(countries, input[1])
                /\ UNCHANGED <<place_name, trace, error>>
    /\ UNCHANGED <<styleVars, sizeVars, city_name, countries, table, mainVars,
                   guiVars, responses, images_before>>

\* main: graph = ox.graph_from_place(place_name, network_type='drive')
GraphFromPlace ==
    /\ pc = "graph_from_place"
    /\ trace' = Append(trace, "graph_from_place")
    /\ \/ \E g \in Graphs :
            /\ graph' = g
            /\ pc' = next_statement(pc)
            /\ UNCHANGED error
       \/ \E exc \in GraphErrors :
            /\ Raise(exc)
            /\ UNCHANGED graph
    /\ UNCHANGED <<styleVars, sizeVars, dialogVars, table, railway_data,
                   widths, colors, ax, map_without_signals, map_with_signals,
                   guiVars, responses, images_before>>

\* main: one entry of the railway_data comprehension, for the next name of
\* the table.
GetFeatures ==
    /\ pc = "get_features"
    /\ LET config == table[Len(railway_data) + 1]
       IN  /\ trace' = Append(trace, "get_features:" \o config.name)
           /\ \E answer \in ProviderAnswers(config.tags) :
                LET got == get_features(answer)
                IN  /\ responses' = Append(responses, answer)
                    /\ IF got.raises # ""
                       THEN /\ Raise(got.raises)
                            /\ UNCHANGED railway_data
                       ELSE /\ railway_data' =
                                Append(railway_data,
                                       [name |-> config.name,
                                        features |-> got.features])
                            /\ pc' = IF Len(railway_data') = Len(table)
                                     THEN next_statement(pc)
                                     ELSE pc
                            /\ UNCHANGED error
    /\ UNCHANGED <<styleVars, sizeVars, dialogVars, table, graph, widths,
                   colors, ax, map_without_signals, map_with_signals, guiVars,
                   images_before>>

\* main: the loop that styles every edge.
RoadStyling ==
    /\ pc = "road_styling"
    /\ trace' = Append(trace, "road_styling")
    /\ LET styles == edge_styles(graph.edges)
       IN  /\ widths' = [i \in 1..Len(styles) |-> styles[i][1]]
           /\ colors' = [i \in 1..Len(styles) |-> styles[i][2]]
    /\ pc' = next_statement(pc)
    /\ UNCHANGED <<styleVars, sizeVars, dialogVars, table, graph,
                   railway_data, ax, map_without_signals, map_with_signals,
                   guiVars, error, responses, images_before>>

\* main: fig, ax = ox.plot_graph(...)
PlotGraph ==
    /\ pc = "plot_graph"
    /\ trace' = Append(trace, "plot_graph")
    /\ ax' = plot_graph(colors, widths)
    /\ pc' = next_statement(pc)
    /\ UNCHANGED <<styleVars, sizeVars, dialogVars, table, graph,
                   railway_data, widths, colors, map_without_signals,
                   map_with_signals, guiVars, error, responses, images_before>>

\* main: the loop that overlays the railway features, signals left out.
OverlayRailways ==
    /\ pc = "overlay_railways"
    /\ trace' = Append(trace, "overlay_railways")
    /\ ax' = overlay_railways(railway_data, ax, table)
    /\ pc' = next_statement(pc)
    /\ UNCHANGED <<styleVars, sizeVars, dialogVars, table, graph,
                   railway_data, widths, colors, map_without_signals,
                   map_with_signals, guiVars, error, responses, images_before>>

\* main: map_without_signals = export_image(fig)
ExportA ==
    /\ pc = "export_A"
    /\ trace' = Append(trace, "export_image:A")
    /\ \/ /\ map_without_signals' = export_image(ax, graph.extent)
          /\ pc' = next_statement(pc)
          /\ UNCHANGED error
       \/ \E exc \in ExportErrors :
            /\ Raise(exc)
            /\ UNCHANGED map_without_signals
    /\ UNCHANGED <<styleVars, sizeVars, dialogVars, table, graph,
                   railway_data, widths, colors, ax, map_with_signals,
                   guiVars, responses, images_before>>

\* main: overlay_feature(railway_data['signal'], ax, RAILWAY_FEATURES['signal'])
OverlaySignal ==
    /\ pc = "overlay_signal"
    /\ trace' = Append(trace, "overlay_feature:signal")
    /\ IF HasKey(railway_data, "signal") /\ HasKey(table, "signal")
       THEN /\ ax' = overlay_feature(Lookup(railway_data, "signal").features,
                                     ax, Lookup(table, "signal"))
            /\ pc' = next_statement(pc)
            /\ UNCHANGED error
       ELSE /\ Raise("KeyError")
            /\ UNCHANGED ax
    /\ UNCHANGED <<styleVars, sizeVars, dialogVars, table, graph,
                   railway_data, widths, colors, map_without_signals,
                   map_with_signals, guiVars, responses, images_before>>

\* main: map_with_signals = export_image(fig), and the return
ExportB ==
    /\ pc = "export_B"
    /\ trace' = Append(trace, "export_image:B")
    /\ \/ /\ map_with_signals' = export_image(ax, graph.extent)
          /\ pc' = next_statement(pc)
          /\ UNCHANGED error
       \/ \E exc \in ExportErrors :
            /\ Raise(exc)
            /\ UNCHANGED map_with_signals
    /\ UNCHANGED <<styleVars, sizeVars, dialogVars, table, graph,
                   railway_data, widths, colors, ax, map_without_signals,
                   guiVars, responses, images_before>>

\* display_plots, from the return of Plot.main: the globals take the two
\* images, scaled to the window, and the labels show them.
DisplayImages ==
    /\ pc = "display_images"
    /\ trace' = Append(trace, "configure_labels")
    /\ \E h \in WindowHeights :
        LET image_1 == CTkImage(map_without_signals,
                                display_size[h, map_without_signals.size])
            image_2 == CTkImage(map_with_signals,
                                display_size[h, map_with_signals.size])
        IN  /\ plot_image_1' = image_1
            /\ plot_image_2' = image_2
            /\ plot_label_1' = image_1
            /\ plot_label_2' = image_2
    /\ pc' = IF Len(countries) > 1 THEN "while_test" ELSE "returned"
    /\ UNCHANGED <<styleVars, sizeVars, dialogVars, table, mainVars, error,
                   responses, images_before>>

\* get_country_name: the while condition, read again after display_plots
\* has returned.
WhileTest ==
    /\ pc = "while_test"
    /\ IF ~country_accepted(country[1], countries)
       THEN /\ pc' = "country_dialog"
            /\ dialog_text' = DIALOG_TEXT_COUNTRY(countries, city_name)
       ELSE /\ pc' = "returned"
            /\ UNCHANGED dialog_text
    /\ UNCHANGED <<styleVars, sizeVars, city_name, countries, country,
                   place_name, table, mainVars, guiVars, error, histVars>>

\* The handler is over: its locals are gone and the main loop waits for the
\* next event. Only the module's globals and the widgets remain.
MainloopResume ==
    /\ pc \in {"returned", "raised"}
    /\ pc' = "idle"
    /\ city_name' = ""
    /\ countries' = <<>>
    /\ country' = <<"">>
    /\ dialog_text' = ""
    /\ place_name' = ""
    /\ graph' = NoGraph
    /\ railway_data' = <<>>
    /\ widths' = <<>>
    /\ colors' = <<>>
    /\ ax' = <<>>
    /\ map_without_signals' = NoImage
    /\ map_with_signals' = NoImage
    /\ error' = ""
    /\ responses' = <<>>
    /\ trace' = <<>>
    /\ images_before' = <<>>
    /\ UNCHANGED <<styleVars, sizeVars, table, guiVars>>

\* on_closing: app.quit() ends the main loop.
OnClosing ==
    /\ pc = "idle"
    /\ pc' = "closed"
    /\ UNCHANGED <<styleVars, sizeVars, dialogVars, table, mainVars, guiVars,
                   error, histVars>>

(***************************************************************************)
(* The style resolver and the presentation adapter on their own.           *)
(***************************************************************************)
\* The fragments a classification string is joined from.
Fragments ==
    { "motorway", "Trunk", "PRIMARY", "secondary", "tertiary_link",
      "residential", "service", "default", "motor", "way" }

RECURSIVE Join(_)
Join(parts) == IF parts = <<>> THEN "" ELSE Head(parts) \o Join(Tail(parts))

PartLists == UNION { [1..n -> Fragments] : n \in 1..MaxParts }

\* The highway values: strings, and lists of strings.
Classifications ==
    {Str(Join(parts)) : parts \in PartLists} \cup {List(parts) : parts \in PartLists}

\* The images and max_size values: every small size, and the spec's examples.
SizeInputs ==
    ((1..MaxDim) \X (1..MaxDim) \X (1..MaxSize))
        \cup {<<200, 100, 100>>, <<100, 200, 100>>, <<100, 100, 100>>}

ResolveStyle ==
    /\ road_style = <<>>
    /\ road_style' = get_road_style(highway_type)
    /\ UNCHANGED <<highway_type, sizeVars, pc, dialogVars, table, mainVars,
                   guiVars, error, histVars>>

CalculateSize ==
    /\ image_size = <<>>
    /\ image_size' = calculate_image_size(image, PyInt(max_size))
    /\ UNCHANGED <<image, max_size, styleVars, pc, dialogVars, table, mainVars,
                   guiVars, error, histVars>>

(***************************************************************************)
(* The specifications.                                                     *)
(***************************************************************************)
InitApp ==
    /\ pc = "idle"
    /\ city_name = ""
    /\ countries = <<>>
    /\ country = <<"">>
    /\ dialog_text = ""
    /\ place_name = ""
    /\ graph = NoGraph
    /\ railway_data = <<>>
    /\ widths = <<>>
    /\ colors = <<>>
    /\ ax = <<>>
    /\ map_without_signals = NoImage
    /\ map_with_signals = NoImage
    /\ plot_image_1 = NoImage
    /\ plot_image_2 = NoImage
    /\ plot_label_1 = NoImage
    /\ plot_label_2 = NoImage
    /\ error = ""
    /\ responses = <<>>
    /\ trace = <<>>
    /\ images_before = <<>>

InitIdleStyle ==
    /\ highway_type = Str("")
    /\ road_style = <<>>

InitIdleSize ==
    /\ image = <<1, 1>>
    /\ max_size = 1
    /\ image_size = <<>>

\* The application as it starts, with the style table of Plot.py.
Init ==
    /\ InitApp
    /\ table = RAILWAY_FEATURES
    /\ InitIdleStyle
    /\ InitIdleSize

Next ==
    \/ StartPlotting
    \/ CountryInput
    \/ GraphFromPlace
    \/ GetFeatures
    \/ RoadStyling
    \/ PlotGraph
    \/ OverlayRailways
    \/ ExportA
    \/ OverlaySignal
    \/ ExportB
    \/ DisplayImages
    \/ WhileTest
    \/ MainloopResume
    \/ OnClosing

Spec == Init /\ [][Next]_vars

\* Plot.main from the loaded data to its return: the content of the two
\* exports, or the exception raised.
main_contents(features_table, data, g) ==
    LET styles == edge_styles(g.edges)
        edge_widths == [i \in 1..Len(styles) |-> styles[i][1]]
        edge_colors == [i \in 1..Len(styles) |-> styles[i][2]]
        base == plot_graph(edge_colors, edge_widths)
        first == overlay_railways(data, base, features_table)
    IN  IF HasKey(data, "signal") /\ HasKey(features_table, "signal")
        THEN [raises |-> "",
              A |-> Render(first),
              B |-> Render(overlay_feature(Lookup(data, "signal").features,
                                           first,
                                           Lookup(features_table, "signal")))]
        ELSE [raises |-> "KeyError"]

\* The style tables: that of Plot.py, and it with one layer left out.
Without(features_table, name) ==
    LET keep == {i \in 1..Len(features_table) : features_table[i].name # name}
        nth(k) == CHOOSE i \in keep : Cardinality({j \in keep : j < i}) = k - 1
    IN  [k \in 1..Cardinality(keep) |-> features_table[nth(k)]]

LayerNames == {RAILWAY_FEATURES[i].name : i \in 1..Len(RAILWAY_FEATURES)}

InitTable ==
    /\ InitApp
    /\ table \in {RAILWAY_FEATURES} \cup {Without(RAILWAY_FEATURES, n) : n \in LayerNames}
    /\ InitIdleStyle
    /\ InitIdleSize

\* The application with any of the style tables.
SpecTable == InitTable /\ [][Next]_vars

InitStyle ==
    /\ InitApp
    /\ table = RAILWAY_FEATURES
    /\ highway_type \in Classifications
    /\ road_style = <<>>
    /\ InitIdleSize

\* get_road_style applied to every classification.
SpecStyle == InitStyle /\ [][ResolveStyle]_vars

InitSize ==
    /\ InitApp
    /\ table = RAILWAY_FEATURES
    /\ InitIdleStyle
    /\ \E s \in SizeInputs :
        /\ image = <<s[1], s[2]>>
        /\ max_size = s[3]
    /\ image_size = <<>>

\* calculate_image_size applied to every image and integer max_size.
SpecSize == InitSize /\ [][CalculateSize]_vars

(***************************************************************************)
(* The properties.                                                         *)
(***************************************************************************)
\* The categories get_road_style knows, most major road first.
Categories == <<"motorway", "trunk", "primary", "secondary", "tertiary">>

StyleOf(road_type) ==
    LET entry == ROAD_STYLES[CHOOSE i \in 1..Len(ROAD_STYLES) :
                                ROAD_STYLES[i].road_type = road_type]
    IN  <<entry.width, entry.color>>

\* The layer an artist of the figure draws: "" for the roads.
LayerOf(artist) == artist.features[1].railway

IsSignal(artist) == LayerOf(artist) = "signal"
IsNotSignal(artist) == LayerOf(artist) # "signal"
IsRailway(artist) == LayerOf(artist) \notin {"", "signal"}

LayersIn(artists) == {LayerOf(artists[i]) : i \in 1..Len(artists)}

IsPrefix(s, t) == Len(s) <= Len(t) /\ SubSeq(t, 1, Len(s)) = s

Count(s, x) == Cardinality({i \in 1..Len(s) : s[i] = x})

Ascending(artists) ==
    \A i, j \in 1..Len(artists) : i < j => artists[i].zorder <= artists[j].zorder

\* C1: get_road_style lower-cases the string form of the classification
\* and returns the style of the first of motorway, trunk, primary,
\* secondary, tertiary that is a substring of it; a classification that
\* contains "motorway" or "trunk" in any letter case resolves to
\* (2.5, '#000000') whatever else it contains.
C1_FirstCategoryWins ==
    road_style # <<>> =>
        LET s == lower(str(highway_type))
        IN  /\ \A i \in 1..Len(Categories) :
                    ( /\ Contains(s, Categories[i])
                      /\ \A j \in 1..(i - 1) : ~Contains(s, Categories[j]) )
                    => road_style = StyleOf(Categories[i])
            /\ (Contains(s, "motorway") \/ Contains(s, "trunk"))
                    => road_style = <<"2.5", "#000000">>

\* C1's case: a classification that names a lesser category first and
\* "Trunk" in another letter case has resolved to the heaviest style.
C1_Witness ==
    /\ highway_type = Str("PRIMARY" \o "Trunk")
    /\ road_style = <<"2.5", "#000000">>

\* C2: a classification whose lower-cased string form contains none of
\* the five category names resolves to exactly the default style
\* (0.3, '#888888'), and get_road_style returns a pair for every input.
C2_DefaultStyle ==
    road_style # <<>> =>
        /\ Len(road_style) = 2
        /\ (\A i \in 1..Len(Categories) :
                ~Contains(lower(str(highway_type)), Categories[i]))
            => road_style = <<"0.3", "#888888">>

\* C2's case: "service", which no category names, has resolved to the
\* default style, as "residential" does.
C2_Witness ==
    /\ highway_type \in {Str("service"), Str("residential" \o "service")}
    /\ road_style = <<"0.3", "#888888">>

\* C3: get_features returns an empty collection when, and only when, the
\* provider reports that nothing matches; any other failure of the
\* provider leaves get_features and main unchanged; and a layer without
\* data does not keep main from querying the other layers and returning
\* both snapshots.
C3_NoDataIsEmpty ==
    /\ \A i \in 1..Len(railway_data) :
        /\ Empty(railway_data[i].features)
                <=> responses[i].raises = "InsufficientResponseError"
        /\ responses[i].raises = "" => railway_data[i].features = responses[i].features
        /\ railway_data[i].name = table[i].name
    /\ \A i \in 1..Len(responses) :
        responses[i].raises \notin {"", "InsufficientResponseError"}
            => /\ i = Len(responses)
               /\ Len(railway_data) = i - 1
               /\ pc = "raised"
               /\ error = responses[i].raises
    /\ \A i \in 1..Len(responses) :
        responses[i].raises = "InsufficientResponseError"
            => /\ Len(railway_data) >= i
               /\ (pc = "get_features" => Len(responses) < Len(table))
               /\ (pc = "raised" => error # "InsufficientResponseError")
    /\ pc = "display_images" =>
        /\ Len(railway_data) = Len(table)
        /\ map_without_signals.kind = "PIL"
        /\ map_with_signals.kind = "PIL"

\* C3's case: main has returned both snapshots although the provider had
\* no data for two of the layers.
C3_Witness ==
    /\ pc = "display_images"
    /\ Cardinality({i \in 1..Len(responses) :
            responses[i].raises = "InsufficientResponseError"}) = 2
    /\ map_without_signals.kind = "PIL"
    /\ map_with_signals.kind = "PIL"

\* C4: the first snapshot holds the roads and every non-empty layer but the
\* signals, each once, and never a signal; the second holds what the first
\* holds and, when there are signals, the signals: without them it is the
\* first.
C4_SnapshotsDifferByTopLayer ==
    /\ map_without_signals.kind = "PIL" =>
        LET A == map_without_signals.content
        IN  /\ LayersIn(A) =
                {""} \cup {railway_data[i].name : i \in
                            {k \in 1..Len(railway_data) :
                                /\ railway_data[k].name # "signal"
                                /\ ~Empty(railway_data[k].features)}}
            /\ Len(A) = Cardinality(LayersIn(A))
            /\ "signal" \notin LayersIn(A)
    /\ map_with_signals.kind = "PIL" =>
        LET A == map_without_signals.content
            B == map_with_signals.content
            signals == Lookup(railway_data, "signal").features
        IN  /\ SelectSeq(B, IsNotSignal) = A
            /\ Len(B) = Len(A) + (IF Empty(signals) THEN 0 ELSE 1)
            /\ \A i \in 1..Len(B) : IsSignal(B[i]) => B[i].features = signals
            /\ map_with_signals.size = map_without_signals.size

\* C4's case: both snapshots are taken, of roads, two railway layers and
\* signals; the second has one artist more.
C4_Witness ==
    /\ pc = "display_images"
    /\ Len(map_without_signals.content) = 3
    /\ Len(map_with_signals.content) = 4

\* C6 as claimed: for positive integers w, h and m, calculate_image_size
\* returns (floor(m*w/h), m) when w > h and (m, floor(m*h/w)) otherwise.
C6_ExactFloor ==
    image_size # <<>> =>
        image_size =
            IF image[1] > image[2]
            THEN <<PyInt((max_size * image[1]) \div image[2]), PyInt(max_size)>>
            ELSE <<PyInt(max_size), PyInt((max_size * image[2]) \div image[1])>>

\* The input of the country dialog names one of the candidates, whatever
\* the letter case.
NamesCandidate(input) ==
    /\ input # <<>>
    /\ \E i \in 1..Len(countries) : lower(countries[i]) = lower(input[1])

\* C7 as claimed: with more than one candidate, display_plots is not called
\* before the input names a candidate in any letter case; such an input
\* is accepted and display_plots is called exactly once; any other input
\* leads to a new dialog, with nothing rendered and the images unchanged.
C7_CaseInsensitiveChoice ==
    Len(countries) > 1 =>
        IF NamesCandidate(country)
        THEN /\ Count(trace, "display_plots") = 1
             /\ pc # "country_dialog"
        ELSE /\ Count(trace, "display_plots") = 0
             /\ pc = "country_dialog"
             /\ <<plot_image_1, plot_image_2, plot_label_1, plot_label_2>>
                    = images_before

\* C8 as claimed: when a failure of Plot.main reaches the main loop, the
\* run is not tried again, the interface tells the user of the failure,
\* and the globals and the labels are what they were before the run.
C8_FailureReported ==
    [][ (pc = "raised" /\ Count(trace, "display_plots") = 1) =>
            /\ pc' = "idle"
            /\ dialog_text' # ""
            /\ <<plot_image_1, plot_image_2, plot_label_1, plot_label_2>>'
                    = images_before ]_vars

\* C5 as claimed: for every layer of the table, the top layer too, a run
\* with no features for the layer gives the two snapshots of a run without
\* the layer in the table, and neither run raises an error of the
\* compositor's own.
C5_EmptyIsOmitted ==
    /\ error # "KeyError"
    /\ (pc = "display_images" /\ table = RAILWAY_FEATURES) =>
        \A i \in 1..Len(railway_data) :
            Empty(railway_data[i].features) =>
                main_contents(Without(table, railway_data[i].name),
                              Without(railway_data, railway_data[i].name),
                              graph)
                    = [raises |-> "",
                       A |-> map_without_signals.content,
                       B |-> map_with_signals.content]

\* The names of the railway artists other than signals, in draw-call order.
RailwayCalls(artists) ==
    LET drawn == SelectSeq(artists, IsRailway)
    IN  [i \in 1..Len(drawn) |-> LayerOf(drawn[i])]

\* The layer has features in railway_data.
HasFeatures(name) == ~Empty(Lookup(railway_data, name).features)

\* The layers other than the top layer that have features, in the
\* insertion order of RAILWAY_FEATURES.
DrawnItems == SelectSeq(<<"tram", "rail", "narrow_gauge">>, HasFeatures)

AfterOverlay == {"export_A", "overlay_signal", "export_B", "display_images"}

\* C9 as claimed: the draw calls of the layers other than the top layer
\* are issued in ascending zorder.
C9_DrawCallsAscending == Ascending(SelectSeq(ax, IsRailway))

\* C9, amended: the draw calls of the layers other than the top layer are
\* issued in the insertion order of RAILWAY_FEATURES (tram, rail,
\* narrow_gauge), empty layers skipped, each with the zorder of its layer;
\* it is the export that paints the artists in ascending zorder.
C9_DrawCallsInTableOrder ==
    /\ table = RAILWAY_FEATURES
    /\ pc \in AfterOverlay =>
        RailwayCalls(ax) = DrawnItems
    /\ \A i \in 1..Len(ax) :
        LayerOf(ax[i]) # "" => ax[i].zorder = Lookup(table, LayerOf(ax[i])).zorder
    /\ map_without_signals.kind = "PIL" => Ascending(map_without_signals.content)
    /\ map_with_signals.kind = "PIL" => Ascending(map_with_signals.content)

\* C9's case: rail (zorder 5) has been drawn before narrow_gauge (zorder 4),
\* and the first snapshot paints narrow_gauge below rail.
C9_Witness ==
    /\ pc = "overlay_signal"
    /\ RailwayCalls(ax) = <<"tram", "rail", "narrow_gauge">>
    /\ RailwayCalls(map_without_signals.content) = <<"tram", "narrow_gauge", "rail">>

\* The calls of a run that succeeds, in order.
ExpectedCalls ==
    << "display_plots", "graph_from_place", "get_features:tram",
       "get_features:rail", "get_features:narrow_gauge", "get_features:signal",
       "road_styling", "plot_graph", "overlay_railways", "export_image:A",
       "overlay_feature:signal", "export_image:B", "configure_labels" >>

\* C10: a run goes through fetching (the road network, then each layer
\* once), styling of every edge, the base render and the overlays of the
\* layers other than the top layer, the first export, the draw of the top
\* layer, the second export and the presentation, in this order, with no
\* stage left out, repeated or moved; the top layer is not drawn before
\* the first export, and nothing is presented before both exports.
C10_StageOrder ==
    /\ IsPrefix(trace, ExpectedCalls)
    /\ (pc \in {"while_test", "returned"} /\ trace # <<>>) => trace = ExpectedCalls
    /\ Count(trace, "road_styling") = 1 =>
        /\ Len(widths) = Len(graph.edges)
        /\ Len(colors) = Len(graph.edges)
    /\ map_without_signals.kind = "None" => "signal" \notin LayersIn(ax)
    /\ Count(trace, "configure_labels") = 1 =>
        /\ map_without_signals.kind = "PIL"
        /\ map_with_signals.kind = "PIL"
        /\ plot_label_1.image = map_without_signals
        /\ plot_label_2.image = map_with_signals
    /\ (Count(trace, "configure_labels") = 0 /\ images_before # <<>>) =>
            <<plot_image_1, plot_image_2, plot_label_1, plot_label_2>> = images_before

\* C10's case: a run has gone through every stage and returned.
C10_Witness ==
    /\ pc = "returned"
    /\ trace = ExpectedCalls
    /\ plot_label_2.image.content # plot_label_1.image.content

=============================================================================
